---- MODULE Spec2Model ----
(***************************************************************************)
(* Model of the crawler repository:                                        *)
(*   - PoliceSpider (crawler/spiders/police_spider.py): link discovery,    *)
(*     URL cleaning and classification, the found_urls frontier;           *)
(*   - TextContentSpider (crawler/spiders/text_content_spider.py): the     *)
(*     batch runner over an input URL list.                                *)
(*                                                                         *)
(* Strings are modelled as sequences of tokens.  A token is either one of  *)
(* the delimiter characters  :  /  #  ?  .  and the blank, or a maximal    *)
(* run of other characters (a "name").  Every string operation of the     *)
(* source that the model needs (split on a delimiter, rstrip('/'),         *)
(* strip(), lower(), membership of a delimiter) acts on token boundaries,  *)
(* so the token sequence behaves as the character string does.             *)
(***************************************************************************)
EXTENDS Integers, Sequences, FiniteSets, TLC

VARIABLES
    \* ---- PoliceSpider -------------------------------------------------
    allowed_domains,      \* PoliceSpider.allowed_domains
    excluded_extensions,  \* PoliceSpider.excluded_extensions
    document_extensions,  \* PoliceSpider.document_extensions
    found_urls,           \* PoliceSpider.found_urls (the frontier)
    items,                \* the dicts yielded by parse, in order
    follows,              \* the requests yielded by parse (response.follow), in order
    fetched,              \* indices of follows already answered by the downloader
    started,              \* the request for start_urls[0] has been answered
    active,               \* the parse generators that are suspended or not yet run
    origin,               \* for each dict of items, where it comes from (history)
    \* ---- pure URL functions, called on their own ------------------------
    url,                  \* the argument string
    cleaned,              \* result of clean_url, once called
    variant,              \* result of clean_url on a variant of the argument
    verdict,              \* result of the classification, once called
    \* ---- TextContentSpider ----------------------------------------------
    excluded_selectors,   \* TextContentSpider.excluded_selectors (class attribute)
    urls_file,            \* content of the file named by self.urls_file
    results,              \* TextContentSpider.results
    todo,                 \* start_requests: the urls not yet iterated
    sr_pc,                \* start_requests: position of the generator
    inflight,             \* requests handed to the downloader, not yet answered
    outcomes,             \* for each record of results, the event that appended it
    output,               \* what closed has written to self.output_file
    \* ---- extract_visible_text, called on its own -------------------------
    document,             \* the HTML document of the response
    extraction,           \* text, excluded count and word count, once extracted
    \* ---- TextContentSpider instances of one process -----------------------
    spiders               \* the calls of TextContentSpider(...) made so far

crawl_vars == <<allowed_domains, excluded_extensions, document_extensions,
                found_urls, items, follows, fetched, started, active, origin>>
url_vars   == <<url, cleaned, variant, verdict>>
batch_vars == <<excluded_selectors, urls_file, results, todo, sr_pc, inflight, outcomes,
                output>>
extract_vars == <<document, extraction>>
process_vars == <<spiders>>
vars       == <<crawl_vars, url_vars, batch_vars, extract_vars, process_vars>>

----------------------------------------------------------------------------
(* Bounds of the model *)

\* longest tail of tokens appended to a URL prefix when the pure functions are called
MaxTail == 3
\* number of responses the downloader hands to PoliceSpider.parse in one run
MaxResponses == 2
\* number of parse generators alive at the same time
MaxActive == 2
\* longest input list of a batch run
MaxUrls == 2
\* number of elements in the body of a document extraction is called on
MaxElements == 2
\* number of times TextContentSpider(...) is called in one process
MaxSpiders == 3

----------------------------------------------------------------------------
(* Strings as token sequences *)

BoundedSeq(S, n) == UNION {[1..k -> S] : k \in 0..n}

\* str.lower() on one token or character: those of the model that are upper case
LowerTok(t) ==
    CASE t = "PDF" -> "pdf"
      [] t = "PNG" -> "png"
      [] t = "TEXT/HTML" -> "text/html"
      [] t = "APPLICATION/XHTML" -> "application/xhtml"
      [] t = "A" -> "a" [] t = "B" -> "b" [] t = "C" -> "c" [] t = "D" -> "d"
      [] t = "E" -> "e" [] t = "F" -> "f" [] t = "G" -> "g" [] t = "H" -> "h"
      [] t = "I" -> "i" [] t = "J" -> "j" [] t = "K" -> "k" [] t = "L" -> "l"
      [] t = "M" -> "m" [] t = "N" -> "n" [] t = "O" -> "o" [] t = "P" -> "p"
      [] t = "Q" -> "q" [] t = "R" -> "r" [] t = "S" -> "s" [] t = "T" -> "t"
      [] t = "U" -> "u" [] t = "V" -> "v" [] t = "W" -> "w" [] t = "X" -> "x"
      [] t = "Y" -> "y" [] t = "Z" -> "z"
      [] OTHER -> t

\* str.lower()
lower(s) == [i \in 1..Len(s) |-> LowerTok(s[i])]

\* index of the first token of s that is in T, Len(s)+1 when there is none
FirstIdx(s, T) ==
    IF \E i \in 1..Len(s) : s[i] \in T
    THEN CHOOSE i \in 1..Len(s) : s[i] \in T /\ \A j \in 1..(i-1) : s[j] \notin T
    ELSE Len(s) + 1

\* index of the last token of s that is in T, 0 when there is none
LastIdx(s, T) ==
    IF \E i \in 1..Len(s) : s[i] \in T
    THEN CHOOSE i \in 1..Len(s) : s[i] \in T /\ \A j \in (i+1)..Len(s) : s[j] \notin T
    ELSE 0

\* s.split(d)[0]
SplitFirst(s, d) == SubSeq(s, 1, FirstIdx(s, {d}) - 1)

\* s.split(d)[-1]
SplitLast(s, d) == SubSeq(s, LastIdx(s, {d}) + 1, Len(s))

\* s.rstrip(d): every trailing d is removed
rstrip(s, d) == SubSeq(s, 1, LastIdx(s, {t \in {s[i] : i \in 1..Len(s)} : t # d}))

\* s.strip(): leading and trailing whitespace is removed
strip(s) ==
    LET nb == {t \in {s[i] : i \in 1..Len(s)} : t \notin {" ", "\n", "\t"}}
    IN  SubSeq(s, FirstIdx(s, nb), LastIdx(s, nb))

Delims == {":", "/", "#", "?", ".", " "}

----------------------------------------------------------------------------
(* urllib.parse, as far as the spiders use it *)

\* urlparse(url): scheme, netloc, path, query, fragment
urlparse(u) ==
    LET hasScheme == Len(u) >= 2 /\ u[2] = ":" /\ u[1] \notin Delims
        rest1     == IF hasScheme THEN SubSeq(u, 3, Len(u)) ELSE u
        hasNet    == Len(rest1) >= 2 /\ rest1[1] = "/" /\ rest1[2] = "/"
        afterSl   == SubSeq(rest1, 3, Len(rest1))
        n         == FirstIdx(afterSl, {"/", "?", "#"})
        rest2     == IF hasNet THEN SubSeq(afterSl, n, Len(afterSl)) ELSE rest1
        f         == FirstIdx(rest2, {"#"})
        rest3     == SubSeq(rest2, 1, f - 1)
        q         == FirstIdx(rest3, {"?"})
    IN  [scheme   |-> IF hasScheme THEN lower(<<u[1]>>) ELSE <<>>,
         netloc   |-> IF hasNet THEN SubSeq(afterSl, 1, n - 1) ELSE <<>>,
         path     |-> SubSeq(rest3, 1, q - 1),
         query    |-> SubSeq(rest3, q + 1, Len(rest3)),
         fragment |-> SubSeq(rest2, f + 1, Len(rest2))]

Range(s) == {s[i] : i \in 1..Len(s)}

\* urllib.parse.uses_relative, the schemes of the model among it
uses_relative == {<<"https">>, <<"http">>, <<>>}

\* urlunparse((scheme, netloc, path, '', query, fragment))
urlunparse(scheme, netloc, path, query, fragment) ==
    (IF scheme # <<>> THEN scheme \o <<":">> ELSE <<>>)
    \o (IF netloc # <<>> THEN <<"/", "/">> \o netloc ELSE <<>>)
    \o (IF netloc # <<>> /\ path # <<>> /\ path[1] # "/" THEN <<"/">> ELSE <<>>)
    \o path
    \o (IF query # <<>> THEN <<"?">> \o query ELSE <<>>)
    \o (IF fragment # <<>> THEN <<"#">> \o fragment ELSE <<>>)

\* urljoin(base, url) for a base with scheme and netloc, and a url without dot
\* segments ("." and ".." as whole path segments) and without empty segments
urljoin(base, u) ==
    LET b      == urlparse(base)
        p      == urlparse(u)
        scheme == IF p.scheme # <<>> THEN p.scheme ELSE b.scheme
        bdir   == SubSeq(b.path, 1, LastIdx(b.path, {"/"}))
    IN  IF u = <<>> THEN base
        ELSE IF scheme # b.scheme \/ scheme \notin uses_relative THEN u
        ELSE IF p.netloc # <<>>
             THEN urlunparse(scheme, p.netloc, p.path, p.query, p.fragment)
        ELSE IF p.path = <<>>
             THEN urlunparse(scheme, b.netloc, b.path,
                             IF p.query # <<>> THEN p.query ELSE b.query, p.fragment)
        ELSE IF p.path[1] = "/"
             THEN urlunparse(scheme, b.netloc, p.path, p.query, p.fragment)
        ELSE urlunparse(scheme, b.netloc,
                        (IF bdir = <<>> THEN <<"/">> ELSE bdir) \o p.path,
                        p.query, p.fragment)

----------------------------------------------------------------------------
(* PoliceSpider: class attributes *)

\* PoliceSpider.allowed_domains
AllowedDomains == {<<"keralapolice", ".", "gov", ".", "in">>}

\* PoliceSpider.start_urls
start_urls == << <<"https", ":", "/", "/", "keralapolice", ".", "gov", ".", "in", "/">> >>

\* PoliceSpider.excluded_extensions
ExcludedExtensions ==
    {<<"jpg">>, <<"jpeg">>, <<"png">>, <<"gif">>, <<"bmp">>, <<"webp">>, <<"svg">>,
     <<"ico">>, <<"js">>, <<"css">>, <<"woff">>, <<"woff2">>, <<"ttf">>, <<"eot">>,
     <<"otf">>}

\* PoliceSpider.document_extensions
DocumentExtensions ==
    {<<"pdf">>, <<"doc">>, <<"docx">>, <<"xls">>, <<"xlsx">>, <<"ppt">>, <<"pptx">>,
     <<"txt">>, <<"csv">>, <<"xml">>, <<"json">>, <<"zip">>, <<"rar">>}

----------------------------------------------------------------------------
(* PoliceSpider: URL functions *)

\* clean_url as it would be if it trimmed exactly one trailing slash
clean_url_OneSlash(u) ==
    LET v == IF "#" \in Range(u) THEN SplitFirst(u, "#") ELSE u
    IN  IF v # <<>> /\ v[Len(v)] = "/" THEN SubSeq(v, 1, Len(v) - 1) ELSE v

\* clean_url as it would be if it left the fragment in place
clean_url_KeepFragment(u) == rstrip(u, "/")

\* PoliceSpider.clean_url
clean_url(u) ==
    rstrip(IF "#" \in Range(u) THEN SplitFirst(u, "#") ELSE u, "/")

\* should_follow_url as it would be without the test of the domain
should_follow_url_AnyDomain(u) ==
    LET parsed == urlparse(u)
        path   == lower(parsed.path)
    IN  IF "." \in Range(path)
           /\ SplitFirst(SplitLast(path, "."), "?") \in excluded_extensions
        THEN FALSE
        ELSE TRUE

\* should_follow_url as it would be without the test of the excluded extensions
should_follow_url_NoExcluded(u) ==
    urlparse(u).netloc \in allowed_domains

\* PoliceSpider.should_follow_url
should_follow_url(u) ==
    LET parsed == urlparse(u)
        path   == lower(parsed.path)
    IN  IF parsed.netloc \notin allowed_domains THEN FALSE
        ELSE IF "." \in Range(path)
                /\ SplitFirst(SplitLast(path, "."), "?") \in excluded_extensions
             THEN FALSE
        ELSE TRUE

\* is_document_url as it would be if it compared the extension with its dot
is_document_url_WithDot(u) ==
    LET parsed == urlparse(u)
        path   == lower(parsed.path)
    IN  IF "." \in Range(path)
        THEN (<<".">> \o SplitFirst(SplitLast(path, "."), "?")) \in document_extensions
        ELSE FALSE

\* PoliceSpider.is_document_url
is_document_url(u) ==
    LET parsed == urlparse(u)
        path   == lower(parsed.path)
    IN  IF "." \in Range(path)
        THEN SplitFirst(SplitLast(path, "."), "?") \in document_extensions
        ELSE FALSE

\* The three-way decision parse takes for a cleaned link: the link is dropped,
\* recorded as a document, or followed as a page.
classify(u) ==
    IF should_follow_url(u)
    THEN IF is_document_url(u) THEN "InScopeDocument" ELSE "InScopePage"
    ELSE "OutOfScope"

----------------------------------------------------------------------------
(* PoliceSpider: the crawl *)

\* a slot of the engine that holds no parse generator
NoGen == [pc |-> "none"]

Slots == 1..MaxActive

\* raw href values found on the pages of the model
LinkSelf  == <<"/">>
LinkA     == <<"/", "a">>
LinkAFrag == <<"/", "a", "#", "top">>
LinkDoc   == <<"/", "f", ".", "pdf">>
LinkImg   == <<"/", "i", ".", "png">>
LinkOther == <<"https", ":", "/", "/", "other", ".", "example", "/", "f", ".", "pdf">>
LinkRel   == <<" ", "b", " ">>
LinkEmpty == <<>>

\* the pages the site may answer with: the text of <title> and the href of each <a>
Bodies ==
    { [title |-> <<"Home">>, links |-> <<LinkSelf, LinkA, LinkAFrag, LinkDoc>>],
      [title |-> <<"A">>,    links |-> <<LinkDoc, LinkOther, LinkRel>>],
      [title |-> <<"B">>,    links |-> <<LinkEmpty, LinkImg, LinkA>>] }

\* response.url for a request of u: the URL requested, or, when the server redirects
\* a directory to its trailing-slash form, that form
ResponseUrls(u) ==
    {u} \cup (IF u # <<>> /\ u[Len(u)] # "/" THEN {u \o <<"/">>} ELSE {})

\* the response the downloader hands to the callback
Response(u, body, depth) ==
    [url |-> u, status |-> [int |-> 200], content_type |-> <<"text/html">>,
     title |-> body.title, links |-> body.links, depth |-> depth]

\* number of responses handed to parse so far
Responses == Cardinality(fetched) + (IF started THEN 1 ELSE 0)

\* the slot a new generator is put in: the first one that is free
FreeSlot(s) == active[s] = NoGen /\ \A t \in 1..(s-1) : active[t] # NoGen

\* calling parse(response) creates the generator; nothing of its body has run yet.
\* request is the index in follows of the request the response answers, 0 for the
\* request made from start_urls.
NewGen(response, request) ==
    [pc |-> "start", response |-> response, links |-> response.links,
     request |-> request]

\* PoliceSpider.__init__, and the class attributes the instance reads
InitCrawl ==
    /\ allowed_domains = AllowedDomains
    /\ excluded_extensions = ExcludedExtensions
    /\ document_extensions = DocumentExtensions
    /\ found_urls = {}
    /\ items = <<>>
    /\ follows = <<>>
    /\ fetched = {}
    /\ started = FALSE
    /\ active = [s \in Slots |-> NoGen]
    /\ origin = <<>>

\* the engine answers the request made from start_urls and calls parse on it
StartRequest ==
    /\ ~started
    /\ \E s \in Slots, body \in Bodies, u \in ResponseUrls(start_urls[1]) :
          /\ FreeSlot(s)
          /\ active' = [active EXCEPT ![s] = NewGen(Response(u, body, 0), 0)]
    /\ started' = TRUE
    /\ UNCHANGED <<allowed_domains, excluded_extensions, document_extensions,
                   found_urls, items, follows, fetched, origin>>

\* the engine answers a request yielded by parse and calls parse on the response;
\* the depth of the response is the depth the request was yielded at
Deliver(i) ==
    /\ i \in (1..Len(follows)) \ fetched
    /\ Responses < MaxResponses
    /\ \E s \in Slots, body \in Bodies, u \in ResponseUrls(follows[i].url) :
          /\ FreeSlot(s)
          /\ active' = [active EXCEPT ![s] = NewGen(Response(u, body, follows[i].depth), i)]
    /\ fetched' = fetched \cup {i}
    /\ UNCHANGED <<allowed_domains, excluded_extensions, document_extensions,
                   found_urls, items, follows, started, origin>>

\* set.add as it would be if the update were lost
add_Lost(set, element) == set

\* set.add
add(set, element) == set \cup {element}

\* the test "cleaned_url not in self.found_urls" as it would be if it always passed
not_found_Always(cleaned_url) == TRUE

\* the test "cleaned_url not in self.found_urls" of parse
not_found(cleaned_url) == cleaned_url \notin found_urls

\* response.meta.get('depth', 0): the depth the request was yielded at
meta_get_depth(response) == response.depth

\* the depth of a document record as it would be without the "+ 1"
document_depth_Same(response) == meta_get_depth(response)

\* the depth of a document record: response.meta.get('depth', 0) + 1
document_depth(response) == meta_get_depth(response) + 1

\* the URL of the request a response answers: start_urls[0] for the first request,
\* else the URL given to response.follow
RequestedUrl(request) ==
    IF request = 0 THEN start_urls[1] ELSE follows[request].url

\* the cleaned absolute URLs of the <a href> of a response, as parse computes them
Hrefs(response) ==
    {clean_url(urljoin(response.url, strip(response.links[k]))) :
        k \in {n \in 1..Len(response.links) : response.links[n] # <<>>}}

\* parse, from its first line to the first yield: the dict of the page itself
ParseStart(s) ==
    /\ active[s].pc = "start"
    /\ LET response    == active[s].response
           current_url == response.url
       IN  /\ found_urls' = add(found_urls, current_url)
           /\ items' = Append(items,
                  [url |-> current_url, status_code |-> response.status,
                   content_type |-> response.content_type, title |-> response.title,
                   depth |-> meta_get_depth(response)])
           /\ origin' = Append(origin,
                  [requested |-> RequestedUrl(active[s].request),
                   hrefs |-> Hrefs(response)])
    /\ active' = [active EXCEPT ![s].pc = "links"]
    /\ UNCHANGED <<allowed_domains, excluded_extensions, document_extensions,
                   follows, fetched, started>>

\* parse, one iteration of "for link in links".  The generator is suspended only
\* at a yield; an iteration that yields nothing changes no state, and the frontier
\* only grows, so a link dropped here is dropped as well when the iteration runs
\* later, together with the iterations up to the next yield.
ParseLink(s) ==
    /\ active[s].pc = "links"
    /\ active[s].links # <<>>
    /\ LET response     == active[s].response
           link         == Head(active[s].links)
           absolute_url == urljoin(response.url, strip(link))
           cleaned_url  == clean_url(absolute_url)
       IN  IF link # <<>> /\ should_follow_url(cleaned_url) /\ not_found(cleaned_url)
           THEN IF is_document_url(cleaned_url)
                THEN /\ found_urls' = add(found_urls, cleaned_url)
                     /\ items' = Append(items,
                            [url |-> cleaned_url, status_code |-> [str |-> <<"document">>],
                             content_type |-> <<"document">>,
                             title |-> <<"Document Link">>,
                             depth |-> document_depth(response)])
                     /\ origin' = Append(origin,
                            [requested |-> cleaned_url, hrefs |-> {}])
                     /\ UNCHANGED follows
                ELSE /\ follows' = Append(follows,
                            [url |-> cleaned_url, depth |-> meta_get_depth(response) + 1])
                     /\ UNCHANGED <<found_urls, items, origin>>
           ELSE UNCHANGED <<found_urls, items, follows, origin>>
    /\ active' = [active EXCEPT ![s].links = Tail(@)]
    /\ UNCHANGED <<allowed_domains, excluded_extensions, document_extensions,
                   fetched, started>>

\* parse, the loop is over: the generator is exhausted
ParseEnd(s) ==
    /\ active[s].pc = "links"
    /\ active[s].links = <<>>
    /\ active' = [active EXCEPT ![s] = NoGen]
    /\ UNCHANGED <<allowed_domains, excluded_extensions, document_extensions,
                   found_urls, items, follows, fetched, started, origin>>

----------------------------------------------------------------------------
(* The URL functions called on their own *)

HomeUrl  == <<"https", ":", "/", "/", "keralapolice", ".", "gov", ".", "in">>
OtherUrl == <<"https", ":", "/", "/", "other", ".", "example">>

\* a URL of the model is one of these beginnings followed by at most MaxTail tokens
Prefixes == {<<>>, HomeUrl, HomeUrl \o <<"/", "a">>, OtherUrl \o <<"/", "a">>}

TailAlphabet == {"/", "#", "?", ".", "a", "pdf", "PNG"}

UrlInputs == {p \o t : p \in Prefixes, t \in BoundedSeq(TailAlphabet, MaxTail)}

Fragments == {<<>>, <<"top">>}

NotCalled == [calls |-> 0]

\* The attributes are those of the class, or those of a subclass whose excluded
\* extensions also hold an extension of the document list.
InitUrl ==
    /\ allowed_domains = AllowedDomains
    /\ excluded_extensions \in {ExcludedExtensions, ExcludedExtensions \cup {<<"pdf">>}}
    /\ document_extensions = DocumentExtensions
    /\ url \in UrlInputs
    /\ cleaned = NotCalled
    /\ variant = [kind |-> "none"]
    /\ verdict = [done |-> FALSE]

\* cleaned = self.clean_url(url)
CallCleanUrl ==
    /\ cleaned.calls = 0
    /\ cleaned' = [calls |-> 1, first |-> clean_url(url)]
    /\ UNCHANGED <<url, variant, verdict>>

\* self.clean_url(cleaned): the result is cleaned once more
CallCleanUrlAgain ==
    /\ cleaned.calls = 1
    /\ cleaned' = [calls |-> 2, first |-> cleaned.first, second |-> clean_url(cleaned.first)]
    /\ UNCHANGED <<url, variant, verdict>>

\* self.clean_url(url + '#' + fragment)
CallCleanUrlWithFragment ==
    /\ variant.kind = "none"
    /\ \E f \in Fragments :
          variant' = [kind |-> "fragment", val |-> clean_url(url \o <<"#">> \o f)]
    /\ UNCHANGED <<url, cleaned, verdict>>

\* self.clean_url(url + '/')
CallCleanUrlWithSlash ==
    /\ variant.kind = "none"
    /\ variant' = [kind |-> "slash", val |-> clean_url(url \o <<"/">>)]
    /\ UNCHANGED <<url, cleaned, verdict>>

\* the decision of parse on url
CallClassify ==
    /\ ~verdict.done
    /\ verdict' = [done |-> TRUE, val |-> classify(url)]
    /\ UNCHANGED <<url, cleaned, variant>>

----------------------------------------------------------------------------
(* Text: strings as sequences of characters *)

\* Python's None, and values that may be None
None == [none |-> TRUE]
Str(s) == [str |-> s]
IntVal(n) == [int |-> n]

Whitespace == {" ", "\n", "\t"}

DigitChars == {"0", "1", "2", "3", "4", "5", "6", "7", "8", "9"}

\* pattern in s
Contains(s, pattern) ==
    \E i \in 1..(Len(s) - Len(pattern) + 1) : SubSeq(s, i, i + Len(pattern) - 1) = pattern

\* s.isdigit()
isdigit(s) == s # <<>> /\ \A i \in 1..Len(s) : s[i] \in DigitChars

\* c.isalnum() for one character of the model
isalnum(c) == c \notin Whitespace \cup {"(c)", "|", "-", ".", "/", ":", "#", "?"}

\* str(n) for n >= 0
RECURSIVE str(_)
str(n) ==
    LET d == <<"0", "1", "2", "3", "4", "5", "6", "7", "8", "9">>
    IN  IF n < 10 THEN <<d[n + 1]>> ELSE str(n \div 10) \o <<d[(n % 10) + 1]>>

\* ' '.join(parts)
RECURSIVE join(_)
join(parts) ==
    IF parts = <<>> THEN <<>>
    ELSE IF Len(parts) = 1 THEN parts[1]
    ELSE parts[1] \o <<" ">> \o join(Tail(parts))

\* re.sub(r'\s+', ' ', s)
RECURSIVE collapse(_)
collapse(s) ==
    IF s = <<>> THEN <<>>
    ELSE IF s[1] \in Whitespace
         THEN <<" ">> \o collapse(SubSeq(s, FirstIdx(s, Range(s) \ Whitespace), Len(s)))
         ELSE <<s[1]>> \o collapse(Tail(s))

\* len(s.split())
RECURSIVE word_count(_)
word_count(s) ==
    IF Range(s) \subseteq Whitespace THEN 0
    ELSE LET b == FirstIdx(s, Range(s) \ Whitespace)
             w == SubSeq(s, b, Len(s))
         IN  1 + word_count(SubSeq(w, FirstIdx(w, Whitespace), Len(w)))

----------------------------------------------------------------------------
(* TextContentSpider: class attributes *)

\* TextContentSpider.document_extensions
TextDocumentExtensions ==
    {<<"pdf">>, <<"doc">>, <<"docx">>, <<"xls">>, <<"xlsx">>, <<"ppt">>, <<"pptx">>,
     <<"txt">>, <<"csv">>, <<"zip">>, <<"rar">>, <<"tar">>, <<"gz">>}

\* TextContentSpider.excluded_selectors, as the class defines it
ExcludedSelectors ==
    <<"header", "footer", "nav", "aside", ".header", ".footer", ".navigation", ".nav",
      ".navbar", ".sidebar", ".breadcrumb", ".breadcrumbs", ".menu", ".main-menu",
      ".top-menu", ".bottom-menu", ".copyright", ".social", ".social-media",
      ".social-links", "#header", "#footer", "#navigation", "#nav", "#navbar",
      "#sidebar", "#menu", "#top-menu", "#bottom-menu", ".skip", ".skip-link",
      ".skip-content", ".advertisement", ".ads", ".ad-banner", ".banner", ".promo",
      ".popup", ".modal", ".overlay", ".cookie-notice", ".cookie-banner",
      ".privacy-notice", ".gdpr-notice", ".search", ".search-form", ".search-box",
      ".login", ".login-form", ".user-menu", ".language-selector", ".lang-selector",
      ".accessibility-controls", ".text-size-controls", ".share", ".sharing",
      ".social-share", ".back-to-top", ".scroll-to-top", ".print", ".email",
      ".print-page", ".email-page">>

\* nav_patterns of is_navigation_text
nav_patterns ==
    <<<<"s", "k", "i", "p", " ", "t", "o", " ", "c", "o", "n", "t", "e", "n", "t">>,
      <<"s", "k", "i", "p", " ", "t", "o", " ", "m", "a", "i", "n", " ", "c", "o", "n", "t", "e", "n", "t">>,
      <<"s", "k", "i", "p", " ", "n", "a", "v", "i", "g", "a", "t", "i", "o", "n">>,
      <<"h", "o", "m", "e">>, <<"c", "o", "n", "t", "a", "c", "t", " ", "u", "s">>,
      <<"a", "b", "o", "u", "t", " ", "u", "s">>,
      <<"p", "r", "i", "v", "a", "c", "y", " ", "p", "o", "l", "i", "c", "y">>,
      <<"t", "e", "r", "m", "s", " ", "o", "f", " ", "s", "e", "r", "v", "i", "c", "e">>,
      <<"s", "i", "t", "e", "m", "a", "p">>,
      <<"b", "a", "c", "k", " ", "t", "o", " ", "t", "o", "p">>,
      <<"p", "r", "i", "n", "t", " ", "p", "a", "g", "e">>,
      <<"e", "m", "a", "i", "l", " ", "p", "a", "g", "e">>,
      <<"s", "h", "a", "r", "e", " ", "t", "h", "i", "s", " ", "p", "a", "g", "e">>,
      <<"f", "o", "l", "l", "o", "w", " ", "u", "s">>,
      <<"c", "o", "p", "y", "r", "i", "g", "h", "t">>, <<"(c)">>,
      <<"a", "l", "l", " ", "r", "i", "g", "h", "t", "s", " ", "r", "e", "s", "e", "r", "v", "e", "d">>,
      <<"p", "o", "w", "e", "r", "e", "d", " ", "b", "y">>,
      <<"w", "e", "b", "s", "i", "t", "e", " ", "b", "y">>,
      <<"d", "e", "s", "i", "g", "n", "e", "d", " ", "b", "y">>>>

----------------------------------------------------------------------------
(* TextContentSpider: extraction *)

\* An HTML document of the model: the class and id of its root element <html>, the
\* text of <title> (None without a title), the text of <body> before its first
\* element, and the elements of <body> in order.  An element has a tag, a class, an
\* id and a style attribute ("" when absent), the text inside it, and its tail: the
\* text between it and the next element.

\* the root element of a document, as an element
RootElement(doc) ==
    [tag |-> "html", class |-> doc.root.class, id |-> doc.root.id, style |-> "",
     text |-> <<>>, tail |-> <<>>]

\* element el matches the CSS selector sel: a tag name, .class or #id
Matches(el, sel) ==
    \/ sel = el.tag
    \/ el.class # "" /\ sel = "." \o el.class
    \/ el.id # "" /\ sel = "#" \o el.id

\* element.remove() on every element of els that matches sel: lxml removes the
\* element together with its tail
RemoveMatching(els, sel) == SelectSeq(els, LAMBDA el : ~Matches(el, sel))

\* the loop over self.excluded_selectors: what is left, and excluded_count.
\* selector.css matches the root element as well as its descendants, in document
\* order; excluded_count is raised by the number of matches before any is removed.
\* remove() raises on the root element, which has no parent: the except clause
\* logs it and goes on with the next selector, the matches after the root left in
\* place.
RECURSIVE RemoveExcluded(_, _, _, _)
RemoveExcluded(sels, root, els, count) ==
    IF sels = <<>> THEN [elements |-> els, excluded_count |-> count]
    ELSE LET elements == (IF Matches(root, Head(sels)) THEN <<root>> ELSE <<>>)
                         \o SelectSeq(els, LAMBDA el : Matches(el, Head(sels)))
         IN  IF elements = <<>>
             THEN RemoveExcluded(Tail(sels), root, els, count)
             ELSE IF Head(elements) = root
             THEN RemoveExcluded(Tail(sels), root, els, count + Len(elements))
             ELSE RemoveExcluded(Tail(sels), root, RemoveMatching(els, Head(sels)),
                                 count + Len(elements))

\* the style attribute holds display:none or visibility:hidden, with or without blank
Hidden(el) ==
    el.style \in {"display: none", "display:none", "visibility: hidden", "visibility:hidden"}

\* selector.css('*::text').getall(): the text nodes in document order
RECURSIVE TextNodes(_)
TextNodes(els) ==
    IF els = <<>> THEN <<>>
    ELSE <<Head(els).text, Head(els).tail>> \o TextNodes(Tail(els))

\* is_navigation_text as it would be without the test of isdigit
is_navigation_text_NoDigits(text) ==
    LET text_lower == strip(lower(text))
    IN  \/ \E k \in 1..Len(nav_patterns) : Contains(text_lower, nav_patterns[k])
        \/ Len(text_lower) = 1 /\ ~isalnum(text_lower[1])

\* TextContentSpider.is_navigation_text
is_navigation_text(text) ==
    LET text_lower == strip(lower(text))
    IN  \/ \E k \in 1..Len(nav_patterns) : Contains(text_lower, nav_patterns[k])
        \/ Len(text_lower) = 1 /\ ~isalnum(text_lower[1])
        \/ isdigit(text_lower)

\* the loop "for text in text_elements" of extract_visible_text
RECURSIVE CleanedText(_)
CleanedText(text_elements) ==
    IF text_elements = <<>> THEN <<>>
    ELSE LET text == strip(Head(text_elements))
         IN  (IF text # <<>> /\ ~(Range(text) \subseteq Whitespace) /\ Len(text) > 1
                 /\ ~is_navigation_text(text)
              THEN <<text>> ELSE <<>>)
             \o CleanedText(Tail(text_elements))

\* TextContentSpider.extract_visible_text: (text, excluded_count)
extract_visible_text(doc) ==
    LET kept    == RemoveExcluded(excluded_selectors, RootElement(doc), doc.elements, 0)
        visible == SelectSeq(kept.elements,
                       LAMBDA el : el.tag \notin {"script", "style"} /\ ~Hidden(el))
        text_elements ==
            (IF doc.title = None THEN <<>> ELSE <<doc.title.str>>)
            \o <<doc.lead>> \o TextNodes(visible)
        full_text == collapse(join(CleanedText(text_elements)))
    IN  [text |-> strip(full_text), excluded_count |-> kept.excluded_count]

----------------------------------------------------------------------------
(* TextContentSpider: the batch run *)

\* TextContentSpider.should_process_url
should_process_url(u) ==
    LET parsed == urlparse(u)
        path   == lower(parsed.path)
    IN  IF "." \in Range(path)
           /\ SplitFirst(SplitLast(path, "."), "?") \in TextDocumentExtensions
        THEN FALSE
        ELSE TRUE

\* input URLs of the model: the empty string, a document, a page, a string that
\* is no absolute URL
UrlEmpty  == <<>>
UrlPdf    == <<"http", ":", "/", "/", "h", "/", "a", ".", "pdf">>
UrlB      == <<"http", ":", "/", "/", "h", "/", "b">>
UrlNoScheme == <<"h", "/", "c">>

BatchUrls == {UrlEmpty, UrlPdf, UrlB, UrlNoScheme}

\* What open() and json.load() find at self.urls_file: no file, a file that is
\* not JSON, a JSON scalar, an array of strings ("list"), an array of objects with
\* a "url" key ("objects"), an object with a "urls" array ("dict_urls"), an object
\* with a "url" string ("dict_url"), an object with neither key ("dict_empty").
FileContents ==
    {[kind |-> "missing"], [kind |-> "invalid"], [kind |-> "scalar"],
     [kind |-> "dict_empty"]}
    \cup {[kind |-> k, urls |-> l] :
             k \in {"list", "objects", "dict_urls"}, l \in BoundedSeq(BatchUrls, MaxUrls)}
    \cup {[kind |-> "dict_url", urls |-> <<u>>] : u \in BatchUrls}

\* start_requests, the value of urls once the JSON structure is handled
LoadUrls(file) ==
    CASE file.kind \in {"list", "objects", "dict_urls", "dict_url"} -> file.urls
      [] file.kind = "dict_empty" -> << <<>> >>
      [] OTHER -> <<>>

\* scrapy.Request(url=url, ...) raises ValueError for a URL without "://"
RequestRaises(u) == ~Contains(u, <<":", "/", "/">>)

\* the branch "if url and self.should_process_url(url)" is taken
Dispatched(u) == u # <<>> /\ should_process_url(u)

\* the dict start_requests appends for a document URL; the extracted_at timestamp
\* of the dicts is not modelled
SkippedRecord(u) ==
    [url |-> u, title |-> None, text_content |-> None,
     content_type |-> Str(<<"document (skipped)">>), error |-> <<"skipped_document">>,
     status_code |-> None, word_count |-> 0, excluded_elements_count |-> 0]

\* start_requests runs from one yield to the next without interruption: the
\* dicts it appends for the urls before the next one it dispatches
RECURSIVE SkippedRecords(_)
SkippedRecords(us) ==
    IF us = <<>> \/ Dispatched(Head(us)) THEN <<>>
    ELSE (IF Head(us) # <<>> THEN <<SkippedRecord(Head(us))>> ELSE <<>>)
         \o SkippedRecords(Tail(us))

\* the urls from the next one start_requests dispatches on
RECURSIVE AfterSkipped(_)
AfterSkipped(us) ==
    IF us = <<>> \/ Dispatched(Head(us)) THEN us ELSE AfterSkipped(Tail(us))

\* the urls the generator still has to iterate when it is resumed
Remaining == IF sr_pc = "init" THEN LoadUrls(urls_file) ELSE todo

\* the event behind a record of results, kept for the properties
SkippedEvent(rec) == [kind |-> "skipped", url |-> rec.url]

RECURSIVE SkippedEvents(_)
SkippedEvents(recs) ==
    IF recs = <<>> THEN <<>> ELSE <<SkippedEvent(Head(recs))>> \o SkippedEvents(Tail(recs))

\* TextContentSpider.__init__ without custom selectors, and the input file
InitBatch ==
    /\ excluded_selectors = ExcludedSelectors
    /\ urls_file \in FileContents
    /\ results = <<>>
    /\ todo = <<>>
    /\ sr_pc = "init"
    /\ inflight = {}
    /\ outcomes = <<>>
    /\ output = None

\* the spider is open: closed has not run
Running == output = None

\* start_requests on a missing or invalid file as it would be if the except
\* clauses appended an error record for the file
StartRequestsAbort_Recorded ==
    /\ Running
    /\ sr_pc = "init"
    /\ urls_file.kind \in {"missing", "invalid"}
    /\ sr_pc' = "done"
    /\ results' = Append(results,
           [url |-> <<>>, title |-> None, text_content |-> None, content_type |-> None,
            error |-> <<"urls_file">>, status_code |-> None, word_count |-> 0,
            excluded_elements_count |-> 0])
    /\ outcomes' = Append(outcomes, [kind |-> "skipped", url |-> <<>>])
    /\ UNCHANGED <<excluded_selectors, urls_file, todo, inflight, output>>

\* start_requests: the file is missing or is not JSON; the error is logged and the
\* generator returns
StartRequestsAbort ==
    /\ Running
    /\ sr_pc = "init"
    /\ urls_file.kind \in {"missing", "invalid"}
    /\ sr_pc' = "done"
    /\ UNCHANGED <<excluded_selectors, urls_file, results, todo, inflight, outcomes, output>>

\* start_requests, resumed: runs to its next yield of a Request
StartRequestsYield ==
    /\ Running
    /\ sr_pc \in {"init", "loop"}
    /\ urls_file.kind \notin {"missing", "invalid"}
    /\ AfterSkipped(Remaining) # <<>>
    /\ ~RequestRaises(Head(AfterSkipped(Remaining)))
    /\ LET rest == AfterSkipped(Remaining)
           u    == Head(rest)
           id   == Len(LoadUrls(urls_file)) - Len(rest) + 1
       IN  /\ results' = results \o SkippedRecords(Remaining)
           /\ outcomes' = outcomes \o SkippedEvents(SkippedRecords(Remaining))
           /\ inflight' = inflight \cup
                  {[id |-> id, url |-> u, meta |-> [original_url |-> u]]}
           /\ todo' = Tail(rest)
    /\ sr_pc' = "loop"
    /\ UNCHANGED <<excluded_selectors, urls_file, output>>

\* start_requests, resumed: scrapy.Request raises ValueError, which no except
\* clause of start_requests catches; the generator is dead and the engine asks it
\* for no further request
StartRequestsRaise ==
    /\ Running
    /\ sr_pc \in {"init", "loop"}
    /\ urls_file.kind \notin {"missing", "invalid"}
    /\ AfterSkipped(Remaining) # <<>>
    /\ RequestRaises(Head(AfterSkipped(Remaining)))
    /\ results' = results \o SkippedRecords(Remaining)
    /\ outcomes' = outcomes \o SkippedEvents(SkippedRecords(Remaining))
    /\ todo' = Tail(AfterSkipped(Remaining))
    /\ sr_pc' = "raised"
    /\ UNCHANGED <<excluded_selectors, urls_file, inflight, output>>

\* start_requests, resumed: runs to the end of the loop and returns
StartRequestsReturn ==
    /\ Running
    /\ sr_pc \in {"init", "loop"}
    /\ urls_file.kind \notin {"missing", "invalid"}
    /\ AfterSkipped(Remaining) = <<>>
    /\ results' = results \o SkippedRecords(Remaining)
    /\ outcomes' = outcomes \o SkippedEvents(SkippedRecords(Remaining))
    /\ todo' = <<>>
    /\ sr_pc' = "done"
    /\ UNCHANGED <<excluded_selectors, urls_file, inflight, output>>

\* Content-Type headers of the model; <<>> is the default b'' of a missing header
ContentTypes ==
    { <<"text/html", ";", " ", "charset=utf-8">>,
      <<"APPLICATION/XHTML", "+xml">>,
      <<"application/pdf">>,
      <<>> }

\* HTML documents of the model
DocScenario ==
    [root |-> [class |-> "", id |-> ""], title |-> None, lead |-> <<>>,
     elements |-> <<
        [tag |-> "header", class |-> "", id |-> "", style |-> "",
         text |-> <<"N", "a", "v">>, tail |-> <<>>],
        [tag |-> "p", class |-> "", id |-> "", style |-> "",
         text |-> <<"H", "e", "l", "l", "o", " ", " ", " ", "w", "o", "r", "l", "d">>, tail |-> <<>>],
        [tag |-> "footer", class |-> "", id |-> "", style |-> "",
         text |-> <<"(c)", "2", "0", "2", "4">>, tail |-> <<>>] >>]

DocPlain ==
    [root |-> [class |-> "", id |-> ""], title |-> Str(<<"N", "e", "w", "s">>), lead |-> <<"\n">>,
     elements |-> <<
        [tag |-> "p", class |-> "", id |-> "", style |-> "",
         text |-> <<"H", "i">>, tail |-> <<"\n", " ">>],
        [tag |-> "p", class |-> "", id |-> "", style |-> "",
         text |-> <<"b", "i", "g", "\n", "w", "o", "r", "l", "d">>, tail |-> <<>>] >>]

Docs == {DocScenario, DocPlain}

\* the test of the content type as it would be with "or" in place of "and"
not_html_Or(content_type) ==
    \/ ~Contains(content_type, <<"text/html">>)
    \/ ~Contains(content_type, <<"application/xhtml">>)

\* the line "if 'text/html' not in content_type and 'application/xhtml' not in
\* content_type" of parse
not_html(content_type) ==
    /\ ~Contains(content_type, <<"text/html">>)
    /\ ~Contains(content_type, <<"application/xhtml">>)

\* meta.get('original_url', default) as it would be if the key were misspelt
meta_get_original_url_Missing(meta, default) == default

\* meta.get('original_url', default)
meta_get_original_url(meta, default) ==
    IF "original_url" \in DOMAIN meta THEN meta.original_url ELSE default

\* the dict TextContentSpider.parse builds for a response
ParseResult(response) ==
    LET u            == meta_get_original_url(response.meta, response.url)
        content_type == lower(response.content_type)
        title        == IF response.doc.title = None \/ response.doc.title.str = <<>>
                        THEN response.doc.title
                        ELSE Str(strip(response.doc.title.str))
        extracted    == extract_visible_text(response.doc)
    IN  IF not_html(content_type)
        THEN [url |-> u, title |-> None, text_content |-> None,
              content_type |-> Str(content_type), error |-> <<"not_html_content">>,
              status_code |-> IntVal(response.status), word_count |-> 0,
              excluded_elements_count |-> 0]
        ELSE [url |-> u, title |-> title, text_content |-> Str(extracted.text),
              content_type |-> Str(content_type), error |-> <<"none">>,
              status_code |-> IntVal(response.status),
              word_count |-> IF extracted.text # <<>> THEN word_count(extracted.text) ELSE 0,
              excluded_elements_count |-> extracted.excluded_count]

\* the dict TextContentSpider.handle_error builds for a failure
ErrorResult(failure) ==
    LET u == meta_get_original_url(failure.request.meta, failure.request.url)
        has_response == failure.kind = "http_error"
        status_code  == IF has_response THEN IntVal(failure.status) ELSE None
        error        == IF has_response THEN str(failure.status) ELSE failure.description
    IN  [url |-> u, title |-> None, text_content |-> None, content_type |-> None,
         error |-> error, status_code |-> status_code, word_count |-> 0,
         excluded_elements_count |-> 0]

\* list.append as it would be if it wrote over the last element
append_Overwrite(list, element) ==
    IF list = <<>> THEN <<element>> ELSE [list EXCEPT ![Len(list)] = element]

\* list.append
append(list, element) == Append(list, element)

\* the downloader answers request r with a 2xx response, possibly after a redirect:
\* TextContentSpider.parse
TextParse(r) ==
    /\ Running
    /\ r \in inflight
    /\ \E ct \in ContentTypes, doc \in Docs, u \in ResponseUrls(r.url) :
          LET response == [url |-> u, status |-> 200, content_type |-> ct,
                           doc |-> doc, meta |-> r.meta]
          IN  /\ results' = append(results, ParseResult(response))
              /\ outcomes' = Append(outcomes,
                     [kind |-> "success", url |-> r.url, content_type |-> ct,
                      answered_url |-> u])
    /\ inflight' = inflight \ {r}
    /\ UNCHANGED <<excluded_selectors, urls_file, todo, sr_pc, output>>

\* the failures of the model: HttpError carries the response of a non-2xx status,
\* the others carry none; failure.request is the request that failed, which after a
\* redirect is a copy of the original one with another url and the same meta
Failures(r) ==
    {[kind |-> "http_error", request |-> [r EXCEPT !.url = u], status |-> st] :
        st \in {404, 500}, u \in ResponseUrls(r.url)}
    \cup {[kind |-> "failure", request |-> [r EXCEPT !.url = u],
           description |-> <<"timeout">>] : u \in ResponseUrls(r.url)}

\* the downloader reports a failure for request r: TextContentSpider.handle_error
HandleError(r) ==
    /\ Running
    /\ r \in inflight
    /\ \E failure \in Failures(r) :
          /\ results' = append(results, ErrorResult(failure))
          /\ outcomes' = Append(outcomes,
                 IF failure.kind = "http_error"
                 THEN [kind |-> "http_error", url |-> r.url, status |-> failure.status,
                       answered_url |-> failure.request.url]
                 ELSE [kind |-> "failure", url |-> r.url,
                       description |-> failure.description,
                       answered_url |-> failure.request.url])
    /\ inflight' = inflight \ {r}
    /\ UNCHANGED <<excluded_selectors, urls_file, todo, sr_pc, output>>

\* closed, "successful": the records with error 'none'
Successful(rs) == Cardinality({i \in 1..Len(rs) : rs[i].error = <<"none">>})

\* closed, "errors" as it would be if only 'none' were left out
Errors_AllButNone(rs) ==
    Cardinality({i \in 1..Len(rs) : rs[i].error # <<"none">>})

\* closed, "errors": the records with error not in ['none', 'skipped_document']
Errors(rs) ==
    Cardinality({i \in 1..Len(rs) : rs[i].error \notin {<<"none">>, <<"skipped_document">>}})

\* closed, "skipped_documents"
SkippedDocuments(rs) ==
    Cardinality({i \in 1..Len(rs) : rs[i].error = <<"skipped_document">>})

\* closed, "not_html"
NotHtml(rs) ==
    Cardinality({i \in 1..Len(rs) : rs[i].error = <<"not_html_content">>})

\* sum(r[field] for r in rs if r[field])
RECURSIVE Sum(_, _)
Sum(rs, field) ==
    IF rs = <<>> THEN 0 ELSE Head(rs)[field] + Sum(Tail(rs), field)

\* closed: the summary dict.  The averages, the success rate and the timestamp,
\* which are formatted floats and a clock reading, are left out.
Summary(rs) ==
    [total_urls_processed    |-> Len(rs),
     successful_extractions  |-> Successful(rs),
     errors                  |-> Errors(rs),
     skipped_documents       |-> SkippedDocuments(rs),
     not_html_content        |-> NotHtml(rs),
     total_words_extracted   |-> Sum(rs, "word_count"),
     total_excluded_elements |-> Sum(rs, "excluded_elements_count")]

\* closed: output_data
OutputData ==
    [extraction_settings |->
         [excluded_selectors |-> excluded_selectors,
          document_extensions_skipped |-> TextDocumentExtensions],
     results |-> results,
     summary |-> Summary(results)]

\* TextContentSpider.closed.  The engine calls it once, when the spider closes:
\* when start_requests has ended and no request is left, or earlier when the run
\* is aborted, the requests not yet answered being dropped.  When the output file
\* cannot be written the exception is logged and nothing is saved.
Closed ==
    /\ Running
    /\ \E writable \in BOOLEAN :
          output' = IF writable THEN OutputData ELSE [error |-> TRUE]
    /\ UNCHANGED <<excluded_selectors, urls_file, results, todo, sr_pc, inflight, outcomes>>

----------------------------------------------------------------------------
(* TextContentSpider: several instances in one process *)

\* the values given for the spider argument excluded_selectors (-a on the command
\* line): None when the argument is absent, else a string, written as its selectors
\* and the characters between them
SelectorArgs ==
    {None,
     Str(<<".x">>),
     Str(<<".x", ",", " ", ".y">>),
     Str(<<".x", ",">>)}

\* s.split(sep)
RECURSIVE split(_, _)
split(s, sep) ==
    IF \A i \in 1..Len(s) : s[i] # sep THEN <<s>>
    ELSE LET i == CHOOSE n \in 1..Len(s) : s[n] = sep /\ \A m \in 1..(n-1) : s[m] # sep
         IN  <<SubSeq(s, 1, i - 1)>> \o split(SubSeq(s, i + 1, Len(s)), sep)

\* the string a piece of the argument is, once stripped: one selector, or ''
Piece(s) == IF strip(s) = <<>> THEN "" ELSE strip(s)[1]

\* [s.strip() for s in custom_selectors]
CustomSelectors(arg) ==
    LET custom_selectors == split(arg.str, ",")
    IN  [k \in 1..Len(custom_selectors) |-> Piece(custom_selectors[k])]

\* scrapy.Spider.__init__(**kwargs): every keyword argument becomes an attribute of
\* the instance (self.__dict__.update(kwargs))
SpiderInit(arg) ==
    IF arg = None THEN [x \in {} |-> None] ELSE [excluded_selectors |-> arg]

\* self.excluded_selectors: the attribute of the instance when it has one, else the
\* attribute of the class
self_excluded_selectors(dict) ==
    IF "excluded_selectors" \in DOMAIN dict THEN dict.excluded_selectors
    ELSE [list |-> excluded_selectors]

\* the class attribute when the process starts
InitProcess ==
    /\ excluded_selectors = ExcludedSelectors
    /\ urls_file = None
    /\ results = <<>>
    /\ todo = <<>>
    /\ sr_pc = "init"
    /\ inflight = {}
    /\ outcomes = <<>>
    /\ output = None
    /\ spiders = <<>>

\* TextContentSpider.__init__ called with or without the argument
\* excluded_selectors.  A str has no method extend: the call raises AttributeError
\* and no instance is returned.
Construct(arg) ==
    /\ Len(spiders) < MaxSpiders
    /\ LET dict   == SpiderInit(arg)
           target == self_excluded_selectors(dict)
       IN  IF arg = None
           THEN /\ spiders' = Append(spiders,
                       [kwargs |-> arg, dict |-> dict, raised |-> FALSE, reported |-> None])
                /\ UNCHANGED excluded_selectors
           ELSE IF "list" \in DOMAIN target
           THEN /\ excluded_selectors' = excluded_selectors \o CustomSelectors(arg)
                /\ spiders' = Append(spiders,
                       [kwargs |-> arg, dict |-> dict, raised |-> FALSE, reported |-> None])
           ELSE /\ spiders' = Append(spiders,
                       [kwargs |-> arg, dict |-> dict, raised |-> TRUE, reported |-> None])
                /\ UNCHANGED excluded_selectors
    /\ UNCHANGED <<urls_file, results, todo, sr_pc, inflight, outcomes, output>>

\* closed of instance i: extraction_settings.excluded_selectors of its output
CloseSpider(i) ==
    /\ ~spiders[i].raised
    /\ spiders[i].reported = None
    /\ spiders' = [spiders EXCEPT ![i].reported = self_excluded_selectors(spiders[i].dict)]
    /\ UNCHANGED <<excluded_selectors, urls_file, results, todo, sr_pc, inflight, outcomes,
                   output>>

----------------------------------------------------------------------------
(* TextContentSpider: extraction called on its own *)

\* an element without attributes
Element(tag, text, tail) ==
    [tag |-> tag, class |-> "", id |-> "", style |-> "", text |-> text, tail |-> tail]

\* paragraphs: plain words with a run of blanks, a short word followed by a line
\* break, a sentence that holds the phrase "home", digits only, one character
PHello  == Element("p", <<"H", "e", "l", "l", "o", " ", " ", " ", "w", "o", "r", "l", "d">>, <<>>)
PHi     == Element("p", <<"H", "i">>, <<"\n", " ">>)
PHome   == Element("p", <<"G", "o", " ", "H", "o", "m", "e">>, <<>>)
PDigits == Element("p", <<"4", "2">>, <<>>)
PChar   == Element("p", <<"A">>, <<>>)

Paragraphs == {PHello, PHi, PHome, PDigits, PChar}

\* elements that match an excluded selector: by tag, by class, by id
HeaderEl == Element("header", <<"N", "a", "v">>, <<>>)
FooterEl == Element("footer", <<"(c)", "2", "0", "2", "4">>, <<>>)
BannerEl ==
    [tag |-> "div", class |-> "banner", id |-> "", style |-> "",
     text |-> <<"S", "a", "l", "e">>, tail |-> <<"n", "o", "w">>]
MenuEl ==
    [tag |-> "ul", class |-> "", id |-> "menu", style |-> "",
     text |-> <<"L", "i", "n", "k", "s">>, tail |-> <<>>]

\* elements removed without being counted: a script, a hidden paragraph
ScriptEl == Element("script", <<"v", "a", "r">>, <<>>)
HiddenEl ==
    [tag |-> "p", class |-> "", id |-> "", style |-> "display:none",
     text |-> <<"s", "e", "c", "r", "e", "t">>, tail |-> <<>>]

Elements == Paragraphs \cup {HeaderEl, FooterEl, BannerEl, MenuEl, ScriptEl, HiddenEl}

\* the documents extraction is called on: up to MaxElements elements in <body>,
\* with or without a title, the root element with or without a class; and the
\* documents of the batch run
Documents ==
    {[root |-> [class |-> c, id |-> ""], title |-> t, lead |-> <<>>, elements |-> els] :
        c \in {"", "banner"}, t \in {None, Str(<<"N", "e", "w", "s">>)},
        els \in BoundedSeq(Elements, MaxElements)}
    \cup Docs

InitExtract ==
    /\ excluded_selectors = ExcludedSelectors
    /\ document \in Documents
    /\ extraction = None
    /\ urls_file = [kind |-> "missing"]
    /\ results = <<>>
    /\ todo = <<>>
    /\ sr_pc = "init"
    /\ inflight = {}
    /\ outcomes = <<>>
    /\ output = None

\* parse, the lines "text_content, excluded_count = self.extract_visible_text(response)"
\* and "word_count = len(text_content.split()) if text_content else 0"
CallExtractVisibleText ==
    /\ extraction = None
    /\ LET extracted == extract_visible_text(document)
       IN  extraction' =
               [text_content |-> extracted.text,
                excluded_count |-> extracted.excluded_count,
                word_count |-> IF extracted.text # <<>>
                               THEN word_count(extracted.text) ELSE 0]
    /\ UNCHANGED document

----------------------------------------------------------------------------
(* Values of the parts of the program a specification does not run *)

IdleConfig ==
    /\ allowed_domains = AllowedDomains
    /\ excluded_extensions = ExcludedExtensions
    /\ document_extensions = DocumentExtensions

IdleCrawl ==
    /\ found_urls = {}
    /\ items = <<>>
    /\ follows = <<>>
    /\ fetched = {}
    /\ started = FALSE
    /\ active = [s \in Slots |-> NoGen]
    /\ origin = <<>>

IdleUrl ==
    /\ url = <<>>
    /\ cleaned = NotCalled
    /\ variant = [kind |-> "none"]
    /\ verdict = [done |-> FALSE]

IdleBatch ==
    /\ excluded_selectors = <<>>
    /\ urls_file = [kind |-> "missing"]
    /\ results = <<>>
    /\ todo = <<>>
    /\ sr_pc = "init"
    /\ inflight = {}
    /\ outcomes = <<>>
    /\ output = None

IdleExtract ==
    /\ document = None
    /\ extraction = None

IdleProcess == spiders = <<>>

----------------------------------------------------------------------------
(* Specifications *)

\* one crawl run of PoliceSpider
Init == InitCrawl /\ IdleUrl /\ IdleBatch /\ IdleExtract /\ IdleProcess

Next ==
    \/ StartRequest /\ UNCHANGED <<url_vars, batch_vars, extract_vars, process_vars>>
    \/ \E i \in 1..Len(follows) : Deliver(i) /\ UNCHANGED <<url_vars, batch_vars, extract_vars, process_vars>>
    \/ \E s \in Slots : ParseStart(s) /\ UNCHANGED <<url_vars, batch_vars, extract_vars, process_vars>>
    \/ \E s \in Slots : ParseLink(s) /\ UNCHANGED <<url_vars, batch_vars, extract_vars, process_vars>>
    \/ \E s \in Slots : ParseEnd(s) /\ UNCHANGED <<url_vars, batch_vars, extract_vars, process_vars>>

Spec == Init /\ [][Next]_vars

\* the URL functions of PoliceSpider, each called on an argument
InitUrlSpec == InitUrl /\ IdleCrawl /\ IdleBatch /\ IdleExtract /\ IdleProcess

NextUrl ==
    \/ CallCleanUrl /\ UNCHANGED <<crawl_vars, batch_vars, extract_vars, process_vars>>
    \/ CallCleanUrlAgain /\ UNCHANGED <<crawl_vars, batch_vars, extract_vars, process_vars>>
    \/ CallCleanUrlWithFragment /\ UNCHANGED <<crawl_vars, batch_vars, extract_vars, process_vars>>
    \/ CallCleanUrlWithSlash /\ UNCHANGED <<crawl_vars, batch_vars, extract_vars, process_vars>>
    \/ CallClassify /\ UNCHANGED <<crawl_vars, batch_vars, extract_vars, process_vars>>

SpecUrl == InitUrlSpec /\ [][NextUrl]_vars

\* one batch run of TextContentSpider
InitBatchSpec == InitBatch /\ IdleUrl /\ IdleCrawl /\ IdleConfig /\ IdleExtract /\ IdleProcess

NextBatch ==
    \/ StartRequestsAbort /\ UNCHANGED <<crawl_vars, url_vars, extract_vars, process_vars>>
    \/ StartRequestsYield /\ UNCHANGED <<crawl_vars, url_vars, extract_vars, process_vars>>
    \/ StartRequestsRaise /\ UNCHANGED <<crawl_vars, url_vars, extract_vars, process_vars>>
    \/ StartRequestsReturn /\ UNCHANGED <<crawl_vars, url_vars, extract_vars, process_vars>>
    \/ \E r \in inflight : TextParse(r) /\ UNCHANGED <<crawl_vars, url_vars, extract_vars, process_vars>>
    \/ \E r \in inflight : HandleError(r) /\ UNCHANGED <<crawl_vars, url_vars, extract_vars, process_vars>>
    \/ Closed /\ UNCHANGED <<crawl_vars, url_vars, extract_vars, process_vars>>

SpecBatch == InitBatchSpec /\ [][NextBatch]_vars

\* extract_visible_text and the word count of parse, on a document
InitExtractSpec == InitExtract /\ IdleUrl /\ IdleCrawl /\ IdleConfig /\ IdleProcess

NextExtract ==
    CallExtractVisibleText /\ UNCHANGED <<crawl_vars, url_vars, batch_vars, process_vars>>

SpecExtract == InitExtractSpec /\ [][NextExtract]_vars

\* several TextContentSpider instances created and closed in one process
InitProcessSpec == InitProcess /\ IdleUrl /\ IdleCrawl /\ IdleConfig /\ IdleExtract

NextProcess ==
    \/ \E arg \in SelectorArgs : Construct(arg) /\ UNCHANGED <<crawl_vars, url_vars, extract_vars>>
    \/ \E i \in 1..Len(spiders) : CloseSpider(i) /\ UNCHANGED <<crawl_vars, url_vars, extract_vars>>

SpecProcess == InitProcessSpec /\ [][NextProcess]_vars

----------------------------------------------------------------------------
(* Vocabulary of the properties *)

\* the host of a URL
HostOf(u) == urlparse(u).netloc

\* the last segment of the path of a URL
LastSegment(u) == SplitLast(urlparse(u).path, "/")

\* a URL has an extension when its last path segment holds a "."
HasExtension(u) == "." \in Range(LastSegment(u))

\* the extension: what follows the final "." of the last path segment, lower-cased
ExtensionOf(u) == lower(SplitLast(LastSegment(u), "."))

\* host allowed and extension not excluded
InScope(u) ==
    /\ HostOf(u) \in allowed_domains
    /\ ~(HasExtension(u) /\ ExtensionOf(u) \in excluded_extensions)

\* an in-scope URL whose extension is a document extension
InScopeDocument(u) ==
    InScope(u) /\ HasExtension(u) /\ ExtensionOf(u) \in document_extensions

\* the canonical URL a raw link of a page stands for
Normalize(base, link) == clean_url(urljoin(base, strip(link)))

\* the links of its page a generator has already processed
Consumed(g) == SubSeq(g.response.links, 1, Len(g.response.links) - Len(g.links))

\* slot s processes the link at the head of its list in this step
LinkStep(s) ==
    /\ active[s].pc = "links"
    /\ active[s].links # <<>>
    /\ active'[s] # active[s]

\* the link slot s is about to process, normalized
HeadUrl(s) == Normalize(active[s].response.url, Head(active[s].links))

IsDocumentItem(it) == it.status_code = [str |-> <<"document">>]

----------------------------------------------------------------------------
(* Properties of the crawl *)

\* C1: in one crawl run no canonical URL appears in more than one emitted
\* CrawlResult, whatever responses are fed to parse.
C1_UniqueCanonicalResult ==
    \A i, j \in 1..Len(items) :
        i # j => clean_url(items[i].url) # clean_url(items[j].url)

\* C2: a follow-request for a given canonical in-scope page URL is emitted at most
\* once per crawl run.
C2_FollowAtMostOnce ==
    \A i, j \in 1..Len(follows) : i # j => follows[i].url # follows[j].url

\* C3: processing a link of a page at depth d that normalizes to an in-scope
\* document URL not yet in the frontier adds the URL to the frontier and emits
\* exactly one CrawlResult, with status "document", content_type "document", title
\* "Document Link" and depth d+1; and no follow-request ever carries a document URL.
C3_DocumentLink ==
    [][ /\ \A s \in Slots :
             (LinkStep(s) /\ Head(active[s].links) # <<>>
                /\ InScopeDocument(HeadUrl(s)) /\ HeadUrl(s) \notin found_urls)
             => /\ found_urls' = found_urls \cup {HeadUrl(s)}
                /\ items' = Append(items,
                       [url |-> HeadUrl(s), status_code |-> [str |-> <<"document">>],
                        content_type |-> <<"document">>, title |-> <<"Document Link">>,
                        depth |-> active[s].response.depth + 1])
                /\ follows' = follows
        /\ \A i \in 1..Len(follows') :
             ~(HasExtension(follows'[i].url)
               /\ ExtensionOf(follows'[i].url) \in document_extensions) ]_vars

C3_Witness ==
    \E i \in 1..Len(items) :
        /\ IsDocumentItem(items[i])
        /\ items[i].depth = 2
        /\ items[i].url \in found_urls

\* C4: the frontier is empty at run start and only grows, and processing a link
\* whose normalized URL is already in the frontier emits neither a CrawlResult nor a
\* follow-request and leaves the frontier unchanged.
C4_FrontierGrowsOnly ==
    /\ found_urls = {}
    /\ [][ /\ found_urls \subseteq found_urls'
           /\ \A s \in Slots :
                (LinkStep(s) /\ HeadUrl(s) \in found_urls)
                => UNCHANGED <<found_urls, items, follows>> ]_vars

\* a generator of a page at depth 1 has processed a link to a document that the
\* page at depth 0 had already recorded
C4_Witness ==
    \E s \in Slots :
        /\ active[s].pc = "links"
        /\ active[s].response.depth = 1
        /\ \E k \in 1..Len(Consumed(active[s])) :
              LET c == Normalize(active[s].response.url, Consumed(active[s])[k])
              IN  /\ c \in found_urls
                  /\ \E i \in 1..Len(items) : items[i].url = c /\ items[i].depth = 1

\* C5: every follow-request and every document CrawlResult has an allowed host and
\* an extension that is not excluded, and processing an out-of-scope link changes
\* nothing: not the frontier, not the results, not the follow-requests.
C5_OutOfScopeDropped ==
    [][ /\ \A i \in 1..Len(follows') : InScope(follows'[i].url)
        /\ \A i \in 1..Len(items') :
             IsDocumentItem(items'[i]) => InScope(items'[i].url)
        /\ \A s \in Slots :
             (LinkStep(s) /\ ~InScope(HeadUrl(s)))
             => UNCHANGED <<found_urls, items, follows>> ]_vars

\* a generator has processed a link to another host, and one to an excluded extension
C5_Witness ==
    \E s \in Slots :
        /\ active[s].pc = "links"
        /\ \E k \in 1..Len(Consumed(active[s])) :
              LET c == Normalize(active[s].response.url, Consumed(active[s])[k])
              IN  HostOf(c) \notin allowed_domains
                  \/ (HasExtension(c) /\ ExtensionOf(c) \in excluded_extensions)

----------------------------------------------------------------------------
(* Properties of the URL functions *)

\* the class the classifier contract gives a URL, with its order of tests
ClassByContract(u) ==
    IF HostOf(u) \notin allowed_domains THEN "OutOfScope"
    ELSE IF HasExtension(u) /\ ExtensionOf(u) \in excluded_extensions THEN "OutOfScope"
    ELSE IF HasExtension(u) /\ ExtensionOf(u) \in document_extensions THEN "InScopeDocument"
    ELSE "InScopePage"

\* C6: every URL gets exactly one of the three classes, decided in the order: host
\* not allowed, extension excluded (also when it is a document extension too),
\* extension a document extension, otherwise page.
C6_ClassifierOrder ==
    verdict.done =>
        /\ verdict.val \in {"InScopePage", "InScopeDocument", "OutOfScope"}
        /\ verdict.val = ClassByContract(url)

\* an allowed host with an extension that is both excluded and a document extension
C6_Witness ==
    /\ verdict.done
    /\ HostOf(url) \in allowed_domains
    /\ HasExtension(url)
    /\ ExtensionOf(url) \in excluded_extensions \cap document_extensions
    /\ verdict.val = "OutOfScope"

\* C7: cleaning a cleaned URL again yields the same string.
C7_CleanIdempotent ==
    cleaned.calls = 2 => cleaned.second = cleaned.first

\* a URL with a fragment and trailing slashes, cleaned twice
C7_Witness ==
    /\ cleaned.calls = 2
    /\ "#" \in Range(url)
    /\ Len(cleaned.first) + 2 < Len(url)
    /\ cleaned.second = cleaned.first

\* C8: a URL with a fragment appended, or with one trailing slash appended, cleans
\* to the same canonical URL as the URL itself, and the root scheme://host/ cleans to
\* scheme://host.
C8_FragmentSlashEquivalence ==
    /\ (cleaned.calls >= 1 /\ variant.kind # "none") => variant.val = cleaned.first
    /\ (cleaned.calls >= 1 /\ url = HomeUrl \o <<"/">>) => cleaned.first = HomeUrl

C8_Witness ==
    /\ cleaned.calls >= 1
    /\ url = HomeUrl \o <<"/">>
    /\ variant.kind = "fragment"
    /\ variant.val = HomeUrl

----------------------------------------------------------------------------
(* Properties of the batch run *)

\* the batch run is complete: start_requests has ended and every dispatched
\* request has been answered
BatchComplete == sr_pc \in {"done", "raised"} /\ inflight = {}

\* number of elements of sequence s equal to x
Count(s, x) == Cardinality({i \in 1..Len(s) : s[i] = x})

ResultUrls == [i \in 1..Len(results) |-> results[i].url]

\* C9: when the batch run is complete, results holds exactly one record for each
\* entry of the input list, document URLs included.
C9_OneResultPerEntry ==
    (BatchComplete /\ urls_file.kind \in {"list", "objects", "dict_urls", "dict_url"})
    => \A u \in BatchUrls : Count(ResultUrls, u) = Count(urls_file.urls, u)

\* the Content-Type names HTML or XHTML
IsHtmlType(header) ==
    \/ Contains(lower(header), <<"text/html">>)
    \/ Contains(lower(header), <<"application/xhtml">>)

DocumentInput(u) ==
    /\ HasExtension(u)
    /\ ExtensionOf(u) \in TextDocumentExtensions

\* the records of results for input URL u whose error is e
RecordsOf(u, e) == {i \in 1..Len(results) : results[i].url = u /\ results[i].error = e}

\* the outcome is the answer to a fetch request
IsFetch(ev) == ev.kind \in {"success", "http_error", "failure"}

\* C11: a document URL of the input is never dispatched and gets a record with
\* error skipped_document; a request is dispatched only for a non-empty input URL
\* that is no document URL.
C11_DocumentsSkipped ==
    /\ \A r \in inflight : r.url # <<>> /\ ~DocumentInput(r.url)
    /\ \A i \in 1..Len(outcomes) :
          IsFetch(outcomes[i]) => (outcomes[i].url # <<>> /\ ~DocumentInput(outcomes[i].url))
    /\ BatchComplete =>
          \A u \in Range(LoadUrls(urls_file)) :
              DocumentInput(u) =>
                  Cardinality(RecordsOf(u, <<"skipped_document">>))
                      = Count(LoadUrls(urls_file), u)

\* the outcome is a failed fetch: an HTTP error status or a failure below HTTP
IsFailure(ev) == ev.kind \in {"http_error", "failure"}

\* C12: a failed fetch never aborts the batch: in a complete run in which the
\* fetch of an input URL failed, that URL has its record and every other URL of
\* the input list was handled and has its own record too.
C12_FailureIsolated ==
    (BatchComplete /\ \E i \in 1..Len(outcomes) : IsFailure(outcomes[i]))
    => \A u \in Range(LoadUrls(urls_file)) \ {<<>>} :
          Cardinality({i \in 1..Len(results) : results[i].url = u})
              = Count(LoadUrls(urls_file), u)

\* closed has run and has saved its output
Saved == output # None /\ "summary" \in DOMAIN output

\* C13: the summary is computed over exactly the records appended when the run
\* ends, also after an aborted run or with no records: successful_extractions
\* counts the records with error none, skipped_documents those with
\* skipped_document, errors all the others, so that the three add up to
\* total_urls_processed; inputs [a.pdf, b] with b failing 404 give errors 1,
\* skipped_documents 1, successful_extractions 0.
C13_SummaryCounts ==
    Saved =>
        LET summary == output.summary
            none    == {i \in 1..Len(results) : results[i].error = <<"none">>}
            skipped == {i \in 1..Len(results) : results[i].error = <<"skipped_document">>}
            others  == (1..Len(results)) \ (none \cup skipped)
        IN  /\ output.results = results
            /\ summary.total_urls_processed = Len(results)
            /\ summary.successful_extractions = Cardinality(none)
            /\ summary.skipped_documents = Cardinality(skipped)
            /\ summary.errors = Cardinality(others)
            /\ summary.successful_extractions + summary.errors + summary.skipped_documents
                   = summary.total_urls_processed
            /\ (/\ urls_file.kind = "list" /\ urls_file.urls = <<UrlPdf, UrlB>>
                /\ BatchComplete
                /\ \E i \in 1..Len(outcomes) :
                      outcomes[i].kind = "http_error" /\ outcomes[i].status = 404)
               => (/\ summary.errors = 1
                   /\ summary.skipped_documents = 1
                   /\ summary.successful_extractions = 0)

\* the summary of the complete run over [a.pdf, b] with b answered 404
C13_Witness ==
    /\ Saved
    /\ urls_file.kind = "list" /\ urls_file.urls = <<UrlPdf, UrlB>>
    /\ BatchComplete
    /\ output.summary.errors = 1
    /\ output.summary.skipped_documents = 1
    /\ results[2].error = <<"4", "0", "4">>

----------------------------------------------------------------------------
(* Properties of the extraction *)

\* the element matches one of the excluded selectors
NoiseElement(el) ==
    \E k \in 1..Len(excluded_selectors) : Matches(el, excluded_selectors[k])

\* the elements of a document, its root included
AllElements(doc) == <<RootElement(doc)>> \o doc.elements

\* number of whitespace-separated tokens of a text
Tokens(text) ==
    Cardinality({i \in 1..Len(text) :
        text[i] \notin Whitespace /\ (i = 1 \/ text[i - 1] \in Whitespace)})

\* C14: extraction removes every element that matches an excluded selector and
\* counts it: the text inside such an element does not appear in the extracted
\* text, the excluded count is the number of these elements (scripts, styles and
\* hidden elements are not counted), and the word count is the number of
\* whitespace-separated tokens of the text; header "Nav", paragraph "Hello   world",
\* footer "(c)2024" give "Hello world", 2 and 2.
C14_NoiseRemoved ==
    extraction # None =>
        LET all   == AllElements(document)
            noise == {i \in 1..Len(all) : NoiseElement(all[i])}
        IN  /\ \A i \in noise :
                  all[i].text # <<>> => ~Contains(extraction.text_content, all[i].text)
            /\ extraction.excluded_count = Cardinality(noise)
            /\ extraction.word_count = Tokens(extraction.text_content)
            /\ document = DocScenario =>
                  /\ extraction.text_content
                         = <<"H", "e", "l", "l", "o", " ", "w", "o", "r", "l", "d">>
                  /\ extraction.excluded_count = 2
                  /\ extraction.word_count = 2

\* the text nodes of the paragraphs of a document, in document order
RECURSIVE ParagraphTexts(_)
ParagraphTexts(els) ==
    IF els = <<>> THEN <<>> ELSE <<Head(els).text>> \o ParagraphTexts(Tail(els))

\* a document that contains only visible paragraph text: no title, no class or id
\* on the root, nothing but paragraphs without attributes in the body, and nothing
\* but whitespace between them
PlainDocument(doc) ==
    /\ doc.root = [class |-> "", id |-> ""]
    /\ doc.title = None
    /\ Range(doc.lead) \subseteq Whitespace
    /\ \A i \in 1..Len(doc.elements) :
          LET el == doc.elements[i]
          IN  /\ el.tag = "p" /\ el.class = "" /\ el.id = "" /\ el.style = ""
              /\ Range(el.tail) \subseteq Whitespace

\* the visible text of a plain document: the texts of its paragraphs, whitespace
\* runs collapsed to single spaces, ends trimmed
VisibleText(doc) == strip(collapse(join(ParagraphTexts(doc.elements))))

\* C15 as stated: for every document that contains only visible paragraph text
\* and no noise elements, extraction yields excluded count 0 and the visible text
\* of the document with whitespace runs collapsed and ends trimmed.
C15_PlainTextKept ==
    (extraction # None /\ PlainDocument(document))
    => /\ extraction.excluded_count = 0
       /\ extraction.text_content = VisibleText(document)

\* the text node, trimmed, is one the extraction leaves out: empty or a single
\* character, digits only, or holding a boilerplate phrase in any case
LeftOut(text) ==
    \/ Len(text) <= 1
    \/ \A i \in 1..Len(text) : text[i] \in DigitChars
    \/ \E k \in 1..Len(nav_patterns) : Contains(lower(text), nav_patterns[k])

\* the paragraph texts of a document the extraction keeps, trimmed
RECURSIVE KeptTexts(_)
KeptTexts(els) ==
    IF els = <<>> THEN <<>>
    ELSE (IF LeftOut(strip(Head(els).text)) THEN <<>> ELSE <<strip(Head(els).text)>>)
         \o KeptTexts(Tail(els))

\* C15 amended: for every document that contains only visible paragraph text and
\* no noise elements, extraction yields excluded count 0 and the texts of the
\* paragraphs, leaving out each one that is a single character, digits only or
\* holds a boilerplate phrase, joined by single spaces with whitespace runs
\* collapsed and ends trimmed.
C15_PlainTextFiltered ==
    (extraction # None /\ PlainDocument(document))
    => /\ extraction.excluded_count = 0
       /\ extraction.text_content = strip(collapse(join(KeptTexts(document.elements))))

\* extraction of a plain document with a paragraph that is kept and one that holds
\* the phrase "home"
C15_Witness ==
    /\ extraction # None
    /\ document.title = None /\ document.root.class = ""
    /\ document.elements = <<PHome, PHello>>
    /\ extraction.text_content = <<"H", "e", "l", "l", "o", " ", "w", "o", "r", "l", "d">>
    /\ extraction.excluded_count = 0

----------------------------------------------------------------------------
(* More properties of the batch run *)

\* C16: when the file of URLs is missing or is not valid JSON the run aborts
\* early: no request is ever dispatched and no record is ever appended, so the
\* failure is not among the per-URL records.
C16_BadInputAborts ==
    urls_file.kind \in {"missing", "invalid"}
    => /\ inflight = {}
       /\ results = <<>>
       /\ sr_pc \in {"init", "done"}
       /\ Saved => (output.results = <<>> /\ output.summary.total_urls_processed = 0)

\* start_requests has returned on a file that is not JSON and closed has saved an
\* output without records
C16_Witness ==
    /\ urls_file.kind = "invalid"
    /\ sr_pc = "done"
    /\ Saved
    /\ output.summary.errors = 0

\* C17: every record carries in its url field the input URL under which its
\* request was dispatched, also when the response or the failure reports another
\* URL after a redirect; hence the url of every record is an entry of the input
\* list.
C17_OriginalUrlKept ==
    \A i \in 1..Len(results) :
        /\ results[i].url = outcomes[i].url
        /\ results[i].url \in Range(LoadUrls(urls_file))

\* a page and a failure, both answered under a redirected URL, recorded under the
\* input URL
C17_Witness ==
    \E i, j \in 1..Len(results) :
        /\ outcomes[i].kind = "success"
        /\ outcomes[j].kind = "failure"
        /\ outcomes[i].answered_url # results[i].url
        /\ outcomes[j].answered_url # results[j].url
        /\ results[i].url = UrlB
        /\ results[j].url = UrlB

----------------------------------------------------------------------------
(* More properties of the crawl *)

\* the response to follows[i] has been handed to parse and parse has recorded it
Parsed(i) ==
    /\ i \in fetched
    /\ \A s \in Slots : ~(active[s].pc = "start" /\ active[s].request = i)

\* C18: the traversal terminates through the frontier alone.  Every follow-request
\* is fetched and handed to parse, and nothing but found_urls keeps a URL from
\* being requested again; the run reaches a state without pending request only if
\* a URL whose response has been parsed is not requested once more.  On finite
\* runs: no step emits a follow-request for a URL for which an earlier
\* follow-request has already been fetched and parsed.
C18_NoRequestAfterParse ==
    [][\A i \in 1..Len(follows) :
          (Parsed(i) /\ Len(follows') = Len(follows) + 1)
          => follows'[Len(follows')].url # follows[i].url]_vars

\* the canonical URLs of the links a generator has processed
ConsumedUrls(g) ==
    {Normalize(g.response.url, Consumed(g)[k]) : k \in 1..Len(Consumed(g))}

\* the document records emitted for URL d
DocumentItems(d) == {k \in 1..Len(items) : IsDocumentItem(items[k]) /\ items[k].url = d}

\* C19: the test of the frontier and the insertion of a discovered document link
\* are one step: however the parses of two pages that link to the same new
\* document are interleaved, exactly one of them emits the record of the document.
C19_DocumentOnce ==
    /\ \A k \in 1..Len(items) :
          IsDocumentItem(items[k]) => Cardinality(DocumentItems(items[k].url)) = 1
    /\ \A s, t \in Slots :
          (s # t /\ active[s].pc = "links" /\ active[t].pc = "links")
          => \A d \in ConsumedUrls(active[s]) \cap ConsumedUrls(active[t]) :
                InScopeDocument(d) => Cardinality(DocumentItems(d)) = 1

\* two parses are suspended in their loops, both past a link to the same document,
\* the one started later having emitted its record
C19_Witness ==
    \E s, t \in Slots :
        /\ s # t
        /\ active[s].pc = "links" /\ active[t].pc = "links"
        /\ active[s].response.depth < active[t].response.depth
        /\ \E d \in ConsumedUrls(active[s]) \cap ConsumedUrls(active[t]) :
              /\ InScopeDocument(d)
              /\ \E k \in DocumentItems(d) : items[k].depth = active[t].response.depth + 1

----------------------------------------------------------------------------
(* The result collection of the batch run *)

\* the entries of the input list start_requests has gone through
Iterated ==
    IF sr_pc = "init" THEN <<>>
    ELSE SubSeq(LoadUrls(urls_file), 1, Len(LoadUrls(urls_file)) - Len(todo))

\* number of entries gone through for which a record was appended without a fetch
SkippedSoFar ==
    Cardinality({k \in 1..Len(Iterated) : Iterated[k] # <<>> /\ DocumentInput(Iterated[k])})

\* number of entries gone through for which a request was handed to the downloader
DispatchedSoFar ==
    Cardinality({k \in 1..Len(Iterated) :
        Dispatched(Iterated[k]) /\ ~RequestRaises(Iterated[k])})

----------------------------------------------------------------------------
(* The form of the URLs in the frontier *)

\* a URL in canonical form: clean_url leaves it as it is
IsCanonical(u) == clean_url(u) = u

\* C21: every URL stored in found_urls is in canonical form (no fragment, no
\* trailing slash), the URL of the page whose response is being parsed included,
\* so a later link to that page normalizes to a member of found_urls.
C21_FrontierCanonical ==
    /\ \A u \in found_urls : IsCanonical(u)
    /\ \A s \in Slots :
          active[s].pc = "links" => clean_url(active[s].response.url) \in found_urls

----------------------------------------------------------------------------
(* Depth along discovery *)

\* item j is the record of a page that links to what item k records: the URL
\* requested for k, or the document link k records, is one of the page's links
LinksTo(j, k) ==
    /\ ~IsDocumentItem(items[j])
    /\ origin[k].requested \in origin[j].hrefs

----------------------------------------------------------------------------
(* The selector list of each instance *)

\* the default list followed by the custom selectors of instance i
OwnSelectors(i) ==
    [list |-> ExcludedSelectors \o
              (IF spiders[i].kwargs = None THEN <<>> ELSE CustomSelectors(spiders[i].kwargs))]

\* C23: the selector list of a run is the default list plus only that run's own
\* custom selectors: each instance, created with custom selectors or without, uses
\* and reports that list, whatever other instances the process creates.
C23_OwnSelectorsOnly ==
    \A i \in 1..Len(spiders) :
        /\ ~spiders[i].raised
        /\ self_excluded_selectors(spiders[i].dict) = OwnSelectors(i)
        /\ spiders[i].reported # None => spiders[i].reported = OwnSelectors(i)

====
